---- MODULE Spec2Model ----
(***************************************************************************)
(* Model of the unattend_iso_file resource of terraform-provider-unattend  *)
(* (internal/provider/iso_resource.go): the lifecycle handlers Create,     *)
(* Read, Update, Delete and ImportState, the tracked state the host keeps  *)
(* per declaration, and the files the handlers leave on disk.              *)
(*                                                                         *)
(* Strings are sequences of one-character strings, so that the rendering   *)
(* done by types.String.String() (Go's %q) is computed and not assumed.    *)
(***************************************************************************)
EXTENDS Integers, Sequences, FiniteSets, TLC

\* ------------------------------------------------------------------ bounds
\* Create invocations the host makes in one behaviour.
MaxCreates == 2
\* Distinct random suffixes os.CreateTemp can draw.
MaxRand == 2

\* ------------------------------------------------------------------ inputs
\* The declarations (resource instances) the host knows.
Decls == {"d1", "d2"}
\* The declaration the host reconciles under Spec, with every operation
\* (two fully reconciled declarations square the state space).
Reconciled == {"d1"}

\* attr.NullValueString / attr.UnknownValueString carriers of types.String.
Null == <<"<null>">>
Unknown == <<"<unknown>">>

TMP == <<"t", "m", "p">>

\* Declared file_name values: a plain name and one with a path separator.
FileNames == {<<"a">>, <<"/">>}
\* Declared xml_content values: empty, plain, and one %q must escape.
XMLContents == {<<>>, <<"x">>, <<"\"">>}
\* Declared path_override values: unset, the default spelled out, a prefix.
PathOverrides == {Null, TMP, <<"/", "d", "/">>}
\* Identifiers handed to ImportState.
ImportIds == {<<"i">>}

Configs == [file_name : FileNames, xml_content : XMLContents,
            path_override : PathOverrides]

\* ------------------------------------------------------------------ state
VARIABLES
    tracked,     \* host state store: per declaration NoState or the model
    files,       \* the filesystem: path -> bytes
    openFiles,   \* number of *os.File handles the process holds open
    pc,          \* per declaration: position of its running handler
    data,        \* Create's local `data` (UnattendedISOResourceModel)
    isoWriter,   \* Create's local iso9660.ImageWriter
    b,           \* Create's local bytes.Buffer
    file,        \* Create's local *os.File (its Name()), or NoFile
    diags,       \* resp.Diagnostics of the running / last handler
    op,          \* name of the running / last handler per declaration
    ncreate      \* Create invocations so far

vars == <<tracked, files, openFiles, pc, data, isoWriter, b, file, diags, op,
          ncreate>>

NoState == [null |-> TRUE]
NoData == [null |-> TRUE]
NoWriter == [open |-> FALSE, entries |-> <<>>, cleanups |-> 0]
NoFile == <<>>

\* ------------------------------------------------------- pure functions
\* strconv.Quote's escaping of one string, as fmt's %q applies it.
RECURSIVE Escape(_)
Escape(s) ==
    IF s = <<>> THEN <<>>
    ELSE (IF Head(s) = "\"" THEN <<"\\", "\"">>
          ELSE IF Head(s) = "\\" THEN <<"\\", "\\">>
          ELSE <<Head(s)>>) \o Escape(Tail(s))

\* types.String.String(): the human-readable rendering the handler reads
\* its inputs through: <null>, <unknown>, or the value quoted with %q.
String(v) ==
    IF v = Null THEN <<"<", "n", "u", "l", "l", ">">>
    ELSE IF v = Unknown THEN <<"<", "u", "n", "k", "n", "o", "w", "n", ">">>
    ELSE <<"\"">> \o Escape(v) \o <<"\"">>

\* The test guarding AddFile.
HasXMLContent(xml) == String(xml) /= <<>>

\* The content handed to isoWriter.AddFile (strings.NewReader(...)).
UnattendContent(xml) == String(xml)

\* Variant: the override is compared by value, so the default takes os.Create.
UseCreateTemp_ByValue(po) == po /= TMP

\* The test choosing the os.CreateTemp branch over the os.Create branch.
UseCreateTemp(po) == String(po) /= TMP

\* The pattern handed to os.CreateTemp.
TempPattern(fn) == String(fn)

\* The path handed to os.Create.
CreatePath(po, fn) == String(po) \o String(fn)

\* Variant: the directory is recorded instead of the created file's name.
ResultPathOf_Dir(f) == <<"/", "t", "m", "p">>

\* The value Create stores in data.ResultPath: file.Name().
ResultPathOf(f) == f

\* The id Create assigns.
ExampleId == <<"e", "x", "a", "m", "p", "l", "e", "-", "i", "d">>

\* iso9660 ImageWriter.WriteTo(&b, volume): the image as a sequence of
\* blocks, the volume descriptor followed by the staged entries.
WriteTo(entries, volume) ==
    <<[kind |-> "volume", name |-> volume, content |-> <<>>]>> \o entries

\* The entry isoWriter.AddFile stages.
FileEntry(name, content) == [kind |-> "file", name |-> name, content |-> content]

\* The file entries an image decodes to.
Entries(bytes) == SelectSeq(bytes, LAMBDA e : e.kind = "file")

\* os.CreateTemp: a pattern with a path separator is refused.
HasSeparator(s) == \E i \in 1..Len(s) : s[i] = "/"

\* os.CreateTemp: position of the last "*" of the pattern, 0 if none.
LastStar(s) ==
    IF \E i \in 1..Len(s) : s[i] = "*"
    THEN CHOOSE i \in 1..Len(s) : s[i] = "*" /\ \A j \in (i+1)..Len(s) : s[j] /= "*"
    ELSE 0

\* os.CreateTemp: the random string replaces the last "*", else is appended.
TempName(dir, pattern, rnd) ==
    LET pos == LastStar(pattern)
        prefix == IF pos = 0 THEN pattern ELSE SubSeq(pattern, 1, pos - 1)
        suffix == IF pos = 0 THEN <<>> ELSE SubSeq(pattern, pos + 1, Len(pattern))
    IN dir \o <<"/">> \o prefix \o <<rnd>> \o suffix

TmpDir == <<"/", "t", "m", "p">>

Digits == <<"1", "2", "3", "4", "5", "6", "7", "8", "9">>
RandomStrings == {Digits[i] : i \in 1..MaxRand}

\* stringdefault.StaticString("tmp") on path_override.
Default(v) == IF v = Null THEN TMP ELSE v

\* Variant: the computed attribute carries no plan modifier.
UseStateForUnknown_Absent(stateValue) == Unknown

\* stringplanmodifier.UseStateForUnknown() on id and result_path: the
\* planned value of a computed attribute is the prior state's, when it has one.
UseStateForUnknown(stateValue) ==
    IF stateValue = Null THEN Unknown ELSE stateValue

\* The plan the host hands to Create / Update for a declared config.
Plan(config, prior) ==
    [id |-> IF prior = NoState THEN Unknown ELSE UseStateForUnknown(prior.id),
     file_name |-> config.file_name,
     path_override |-> Default(config.path_override),
     xml_content |-> config.xml_content,
     result_path |-> IF prior = NoState THEN Unknown
                     ELSE UseStateForUnknown(prior.result_path)]

Put(f, k, v) == [x \in DOMAIN f \cup {k} |-> IF x = k THEN v ELSE f[x]]

Prefixes(s) == {SubSeq(s, 1, n) : n \in 0..(Len(s) - 1)}

\* ------------------------------------------------------------------ init
Init ==
    /\ tracked = [d \in Decls |-> NoState]
    /\ files = <<>>
    /\ openFiles = 0
    /\ pc = [d \in Decls |-> "idle"]
    /\ data = [d \in Decls |-> NoData]
    /\ isoWriter = [d \in Decls |-> NoWriter]
    /\ b = [d \in Decls |-> <<>>]
    /\ file = [d \in Decls |-> NoFile]
    /\ diags = [d \in Decls |-> {}]
    /\ op = [d \in Decls |-> "none"]
    /\ ncreate = 0

\* --------------------------------------------------------------- helpers
AddError(d, summary) == [diags EXCEPT ![d] = @ \cup {summary}]

NoLocalsChange == UNCHANGED <<data, isoWriter, b, file>>

\* Variant: the cleanup is not deferred, so an error return skips it.
OnError_NoDefer(step) == "Done"

\* Variant: the error branch of AddFile lacks its return.
OnError_NoReturn(step) ==
    IF step = "NewWriter" THEN "Done"
    ELSE IF step = "AddFile" THEN "WriteTo" ELSE "Cleanup"

\* Where control goes when `step` of Create fails: every error branch
\* returns, and from line 129 on a return runs the deferred cleanup first.
OnError(step) == IF step = "NewWriter" THEN "Done" ELSE "Cleanup"

\* isoWriter.Cleanup() on writer w.
Cleanup(w) == [w EXCEPT !.open = FALSE, !.cleanups = @ + 1]

\* Variant: the volume is named after the declared file_name.
VolumeName_FromFileName(m) == m.file_name

\* The volume identifier Create passes to isoWriter.WriteTo for model m.
VolumeName(m) == "unattend"

\* Variant: the id is derived from the declared file_name.
AssignedId_FromFileName(config) == config.file_name

\* The value Create stores in data.Id for a declared config.
AssignedId(config) == ExampleId

\* A write of `bytes` at offset 0 through a fresh handle.
Overlay(old, bytes) == bytes \o SubSeq(old, Len(bytes) + 1, Len(old))

\* ---------------------------------------------------------------- Create
\* Lines 98-122: the host calls Create for a declaration with no tracked
\* state; req.Plan.Get, then data.Id is assigned.
Create(d, config) ==
    /\ pc[d] = "idle"
    /\ tracked[d] = NoState
    /\ ncreate < MaxCreates
    /\ ncreate' = ncreate + 1
    /\ op' = [op EXCEPT ![d] = "Create"]
    /\ \E ok \in BOOLEAN :
         IF ok
         THEN /\ data' = [data EXCEPT ![d] =
                            [Plan(config, NoState) EXCEPT !.id = AssignedId(config)]]
              /\ diags' = [diags EXCEPT ![d] = {}]
              /\ pc' = [pc EXCEPT ![d] = "NewWriter"]
         ELSE /\ diags' = [diags EXCEPT ![d] = {"Plan.Get"}]
              /\ pc' = [pc EXCEPT ![d] = "Done"]
              /\ UNCHANGED data
    /\ UNCHANGED <<tracked, files, openFiles, isoWriter, b, file>>

\* Lines 124-135: iso9660.NewWriter(); on success the cleanup is deferred.
CreateNewWriter(d) ==
    /\ pc[d] = "NewWriter"
    /\ \E ok \in BOOLEAN :
         IF ok
         THEN /\ isoWriter' = [isoWriter EXCEPT ![d] =
                                 [open |-> TRUE, entries |-> <<>>, cleanups |-> 0]]
              /\ pc' = [pc EXCEPT ![d] = "AddFile"]
              /\ UNCHANGED diags
         ELSE /\ diags' = AddError(d, "Unable to start ISO Writer")
              /\ pc' = [pc EXCEPT ![d] = OnError("NewWriter")]
              /\ UNCHANGED isoWriter
    /\ UNCHANGED <<tracked, files, openFiles, data, b, file, op, ncreate>>

\* Lines 137-143: the conditional isoWriter.AddFile of unattend.xml.
CreateAddFile(d) ==
    /\ pc[d] = "AddFile"
    /\ IF HasXMLContent(data[d].xml_content)
       THEN \E ok \in BOOLEAN :
              IF ok
              THEN /\ isoWriter' = [isoWriter EXCEPT ![d].entries =
                                      Append(@, FileEntry("unattend.xml",
                                          UnattendContent(data[d].xml_content)))]
                   /\ pc' = [pc EXCEPT ![d] = "WriteTo"]
                   /\ UNCHANGED diags
              ELSE /\ diags' = AddError(d, "Error adding file to ISO")
                   /\ pc' = [pc EXCEPT ![d] = OnError("AddFile")]
                   /\ UNCHANGED isoWriter
       ELSE /\ pc' = [pc EXCEPT ![d] = "WriteTo"]
            /\ UNCHANGED <<isoWriter, diags>>
    /\ UNCHANGED <<tracked, files, openFiles, data, b, file, op, ncreate>>

\* Lines 145-150: isoWriter.WriteTo(&b, "unattend").
CreateWriteTo(d) ==
    /\ pc[d] = "WriteTo"
    /\ \E ok \in BOOLEAN :
         IF ok
         THEN /\ b' = [b EXCEPT ![d] = WriteTo(isoWriter[d].entries,
                                                 VolumeName(data[d]))]
              /\ pc' = [pc EXCEPT ![d] = "OpenFile"]
              /\ UNCHANGED diags
         ELSE /\ diags' = AddError(d, "Error writing to ISO")
              /\ pc' = [pc EXCEPT ![d] = OnError("WriteTo")]
              /\ UNCHANGED b
    /\ UNCHANGED <<tracked, files, openFiles, data, isoWriter, file, op, ncreate>>

\* Lines 155-160 and 167-172: os.CreateTemp("/tmp", ...) or os.Create(...).
\* CreateTemp opens with O_EXCL a name no file has; Create truncates.
CreateOpenFile(d) ==
    /\ pc[d] = "OpenFile"
    /\ LET temp == UseCreateTemp(data[d].path_override)
           pattern == TempPattern(data[d].file_name)
           names == IF temp
                    THEN IF HasSeparator(pattern) THEN {}
                         ELSE {TempName(TmpDir, pattern, r) : r \in RandomStrings}
                              \ DOMAIN files
                    ELSE {CreatePath(data[d].path_override, data[d].file_name)}
       IN \/ \E name \in names :
               /\ files' = Put(files, name, <<>>)
               /\ file' = [file EXCEPT ![d] = name]
               /\ openFiles' = openFiles + 1
               /\ pc' = [pc EXCEPT ![d] = "Write"]
               /\ UNCHANGED diags
          \/ /\ diags' = AddError(d, IF temp THEN "Error creating tmp file"
                                     ELSE "Error creating file")
             /\ pc' = [pc EXCEPT ![d] = OnError("OpenFile")]
             /\ UNCHANGED <<files, file, openFiles>>
    /\ UNCHANGED <<tracked, data, isoWriter, b, op, ncreate>>

\* Lines 161-166 and 173-178: file.Write(b.Bytes()), then
\* data.ResultPath = file.Name().  A failed write leaves a prefix.
CreateWrite(d) ==
    /\ pc[d] = "Write"
    /\ \/ /\ files' = [files EXCEPT ![file[d]] = Overlay(@, b[d])]
          /\ data' = [data EXCEPT ![d].result_path = ResultPathOf(file[d])]
          /\ pc' = [pc EXCEPT ![d] = "StateSet"]
          /\ UNCHANGED diags
       \/ \E part \in Prefixes(b[d]) :
            /\ files' = [files EXCEPT ![file[d]] = Overlay(@, part)]
            /\ diags' = AddError(d, IF UseCreateTemp(data[d].path_override)
                                    THEN "Error writing to tmp file"
                                    ELSE "Error writing file")
            /\ pc' = [pc EXCEPT ![d] = OnError("Write")]
            /\ UNCHANGED data
    /\ UNCHANGED <<tracked, openFiles, isoWriter, b, file, op, ncreate>>

\* Line 182: resp.State.Set(ctx, &data).
CreateStateSet(d) ==
    /\ pc[d] = "StateSet"
    /\ \E ok \in BOOLEAN :
         IF ok
         THEN /\ tracked' = [tracked EXCEPT ![d] = data[d]]
              /\ UNCHANGED diags
         ELSE /\ diags' = AddError(d, "State.Set")
              /\ UNCHANGED tracked
    /\ pc' = [pc EXCEPT ![d] = "Cleanup"]
    /\ UNCHANGED <<files, openFiles, data, isoWriter, b, file, op, ncreate>>

\* Lines 129-135: the deferred isoWriter.Cleanup(), run as Create returns.
CreateCleanup(d) ==
    /\ pc[d] = "Cleanup"
    /\ isoWriter' = [isoWriter EXCEPT ![d] = Cleanup(@)]
    /\ \E ok \in BOOLEAN :
         diags' = IF ok THEN diags ELSE AddError(d, "Error in ISO Writer")
    /\ pc' = [pc EXCEPT ![d] = "Done"]
    /\ UNCHANGED <<tracked, files, openFiles, data, b, file, op, ncreate>>

\* Line 183: Create has returned; its locals go out of scope (the *os.File
\* is never closed, so the handle stays open).
CreateReturn(d) ==
    /\ pc[d] = "Done"
    /\ pc' = [pc EXCEPT ![d] = "idle"]
    /\ data' = [data EXCEPT ![d] = NoData]
    /\ isoWriter' = [isoWriter EXCEPT ![d] = NoWriter]
    /\ b' = [b EXCEPT ![d] = <<>>]
    /\ file' = [file EXCEPT ![d] = NoFile]
    /\ UNCHANGED <<tracked, files, openFiles, diags, op, ncreate>>

\* ------------------------------------------------- Read, Update, Delete
\* Variant: Read re-derives the model and loses the computed result_path.
ReadState_Reset(prior) == [prior EXCEPT !.result_path = Null]

\* The state Read hands to resp.State.Set: the `data` req.State.Get filled.
ReadState(prior) == prior

\* Variant: Update re-emits the prior state instead of the plan.
UpdateState_Prior(plan, prior) == prior

\* The state Update hands to resp.State.Set: the `data` req.Plan.Get filled.
UpdateState(plan, prior) == plan

\* Variant: Delete removes the image it recorded.
DeleteFiles_Remove(fs, prior) ==
    [p \in DOMAIN fs \ {prior.result_path} |-> fs[p]]

\* The filesystem after Delete: the handler touches no file.
DeleteFiles(fs, prior) == fs

\* Lines 185-205.  resp.State starts as the prior state, so a failing
\* req.State.Get leaves it in place.
Read(d) ==
    /\ pc[d] = "idle"
    /\ tracked[d] /= NoState
    /\ op' = [op EXCEPT ![d] = "Read"]
    /\ \E ok \in BOOLEAN :
         IF ok
         THEN /\ tracked' = [tracked EXCEPT ![d] = ReadState(tracked[d])]
              /\ diags' = [diags EXCEPT ![d] = {}]
         ELSE /\ diags' = [diags EXCEPT ![d] = {"State.Get"}]
              /\ UNCHANGED tracked
    /\ UNCHANGED <<files, openFiles, pc, ncreate>>
    /\ NoLocalsChange

\* Lines 207-227.  The host plans the declared config over the prior state
\* (Schema, lines 54-85) and calls Update when the plan differs from it.
Update(d, config) ==
    /\ pc[d] = "idle"
    /\ tracked[d] /= NoState
    /\ Plan(config, tracked[d]) /= tracked[d]
    /\ op' = [op EXCEPT ![d] = "Update"]
    /\ \E ok \in BOOLEAN :
         IF ok
         THEN /\ tracked' = [tracked EXCEPT ![d] =
                               UpdateState(Plan(config, tracked[d]), tracked[d])]
              /\ diags' = [diags EXCEPT ![d] = {}]
         ELSE /\ diags' = [diags EXCEPT ![d] = {"Plan.Get"}]
              /\ UNCHANGED tracked
    /\ UNCHANGED <<files, openFiles, pc, ncreate>>
    /\ NoLocalsChange

\* Lines 229-246.  The handler only reads the prior state; the host drops
\* the tracked state when the handler returns without an error.
Delete(d) ==
    /\ pc[d] = "idle"
    /\ tracked[d] /= NoState
    /\ op' = [op EXCEPT ![d] = "Delete"]
    /\ files' = DeleteFiles(files, tracked[d])
    /\ \E ok \in BOOLEAN :
         IF ok
         THEN /\ tracked' = [tracked EXCEPT ![d] = NoState]
              /\ diags' = [diags EXCEPT ![d] = {}]
         ELSE /\ diags' = [diags EXCEPT ![d] = {"State.Get"}]
              /\ UNCHANGED tracked
    /\ UNCHANGED <<openFiles, pc, ncreate>>
    /\ NoLocalsChange

\* Variant: the identifier is passed through to result_path as well.
ImportedState_Path(id) ==
    [id |-> id, file_name |-> Null, path_override |-> Null,
     xml_content |-> Null, result_path |-> id]

\* The state resource.ImportStatePassthroughID(ctx, path.Root("id"), ...)
\* yields: the id attribute set, every other attribute null.
ImportedState(id) ==
    [id |-> id, file_name |-> Null, path_override |-> Null,
     xml_content |-> Null, result_path |-> Null]

\* Lines 248-250: resource.ImportStatePassthroughID sets the id attribute of
\* an otherwise null state.
ImportState(d, id) ==
    /\ pc[d] = "idle"
    /\ tracked[d] = NoState
    /\ op' = [op EXCEPT ![d] = "ImportState"]
    /\ diags' = [diags EXCEPT ![d] = {}]
    /\ tracked' = [tracked EXCEPT ![d] = ImportedState(id)]
    /\ UNCHANGED <<files, openFiles, pc, ncreate>>
    /\ NoLocalsChange

\* ------------------------------------------------------------------ next
Next ==
    \/ \E d \in Reconciled, config \in Configs : Create(d, config)
    \/ \E d \in Reconciled : CreateNewWriter(d)
    \/ \E d \in Reconciled : CreateAddFile(d)
    \/ \E d \in Reconciled : CreateWriteTo(d)
    \/ \E d \in Reconciled : CreateOpenFile(d)
    \/ \E d \in Reconciled : CreateWrite(d)
    \/ \E d \in Reconciled : CreateStateSet(d)
    \/ \E d \in Reconciled : CreateCleanup(d)
    \/ \E d \in Reconciled : CreateReturn(d)
    \/ \E d \in Reconciled : Read(d)
    \/ \E d \in Reconciled, config \in Configs : Update(d, config)
    \/ \E d \in Reconciled : Delete(d)
    \/ \E d \in Reconciled, id \in ImportIds : ImportState(d, id)

Spec == Init /\ [][Next]_vars

TypeOK ==
    /\ openFiles \in 0..MaxCreates
    /\ ncreate \in 0..MaxCreates
    /\ \A d \in Decls : pc[d] \in {"idle", "NewWriter", "AddFile", "WriteTo",
                                   "OpenFile", "Write", "StateSet", "Cleanup", "Done"}

\* ---------------------------------------------------------------- drift
\* The image file is removed behind the provider's back (the drift Read is
\* documented not to detect).
RemoveArtifact(p) ==
    /\ p \in DOMAIN files
    /\ \A d \in Decls : file[d] /= p
    /\ files' = [q \in DOMAIN files \ {p} |-> files[q]]
    /\ UNCHANGED <<tracked, openFiles, pc, data, isoWriter, b, file, diags, op,
                   ncreate>>

NextDrift == Next \/ \E p \in DOMAIN files : RemoveArtifact(p)

SpecDrift == Init /\ [][NextDrift]_vars

\* ------------------------------------------------------------- parallel
\* Declared configs of the declarations the host creates in parallel: two
\* file names os.CreateTemp accepts, empty and plain content, the default
\* and an explicit override, in four combinations.
ParConfigs ==
    {[file_name |-> <<"a">>, xml_content |-> <<>>, path_override |-> Null],
     [file_name |-> <<"a">>, xml_content |-> <<"x">>, path_override |-> <<"/", "d", "/">>],
     [file_name |-> <<"c">>, xml_content |-> <<"x">>, path_override |-> Null],
     [file_name |-> <<"c">>, xml_content |-> <<>>, path_override |-> <<"/", "d", "/">>]}

\* The host runs Create for distinct declarations concurrently: the steps of
\* the Creates of all declarations interleave.
NextPar ==
    \/ \E d \in Decls, config \in ParConfigs : Create(d, config)
    \/ \E d \in Decls : CreateNewWriter(d)
    \/ \E d \in Decls : CreateAddFile(d)
    \/ \E d \in Decls : CreateWriteTo(d)
    \/ \E d \in Decls : CreateOpenFile(d)
    \/ \E d \in Decls : CreateWrite(d)
    \/ \E d \in Decls : CreateStateSet(d)
    \/ \E d \in Decls : CreateCleanup(d)
    \/ \E d \in Decls : CreateReturn(d)

SpecPar == Init /\ [][NextPar]_vars

\* ================================================================ claims
Known(v) == v /= Null /\ v /= Unknown

\* Create has run to its return for d (the response is complete).
CreateDone(d) == pc[d] = "Done" /\ op[d] = "Create"
CreateSucceeded(d) == CreateDone(d) /\ diags[d] = {}

\* C1: whenever a Create ends with an error diagnostic, whichever step
\* failed, no tracked state has been set for the declaration.
C1_FailedCreateLeavesNoState ==
    \A d \in Decls : CreateDone(d) /\ diags[d] /= {} => tracked[d] = NoState

\* C2: after a successful Create the tracked state holds a non-empty id and
\* a result_path naming the file this Create opened and wrote the complete
\* image to; any result_path recorded by Create names a file on disk that
\* holds an image.
C2_ResultPathWritten ==
    \A d \in Decls :
        /\ CreateSucceeded(d) =>
             /\ tracked[d] /= NoState
             /\ Known(tracked[d].id) /\ tracked[d].id /= <<>>
             /\ file[d] /= NoFile
             /\ tracked[d].result_path = file[d]
             /\ file[d] \in DOMAIN files
             /\ b[d] = WriteTo(isoWriter[d].entries, "unattend")
             /\ files[file[d]] = b[d]
        /\ (tracked[d] /= NoState /\ Known(tracked[d].result_path)) =>
             /\ tracked[d].result_path \in DOMAIN files
             /\ LET bytes == files[tracked[d].result_path]
                IN bytes /= <<>> /\ bytes = WriteTo(Entries(bytes), "unattend")

C2_Witness ==
    \E d \in Decls : CreateSucceeded(d) /\ tracked[d] /= NoState
                     /\ Len(files[tracked[d].result_path]) = 2

\* C3: a successful Create whose path_override is not the default tmp wrote
\* to, and recorded as result_path, exactly path_override + file_name.
C3_OverrideIsConcatenation ==
    \A d \in Decls :
        CreateSucceeded(d) /\ data[d].path_override /= TMP =>
            /\ file[d] = data[d].path_override \o data[d].file_name
            /\ tracked[d] /= NoState
            /\ tracked[d].result_path = data[d].path_override \o data[d].file_name

\* A path lies directly in directory dir.
InDir(path, dir) ==
    /\ Len(path) > Len(dir) + 1
    /\ SubSeq(path, 1, Len(dir) + 1) = dir \o <<"/">>
    /\ ~HasSeparator(SubSeq(path, Len(dir) + 2, Len(path)))

\* C4: a Create whose path_override is the default tmp opens a file that did
\* not exist before, directly in the temp directory, creates no other file,
\* and on success records that file's name as result_path; no file is ever
\* created at the literal path "tmp" + file_name.  Files are never removed
\* under Spec, so a name that is new when opened differs from every
\* result_path recorded before.
C4_DefaultUsesFreshTempFile ==
    [][\A d \in Decls :
         /\ (pc[d] = "OpenFile" /\ pc'[d] = "Write" /\ data[d].path_override = TMP) =>
              /\ file'[d] \notin DOMAIN files
              /\ DOMAIN files' = DOMAIN files \cup {file'[d]}
              /\ InDir(file'[d], TmpDir)
              /\ \A fn \in FileNames : TMP \o fn \notin DOMAIN files'
         /\ (pc[d] = "StateSet" /\ tracked'[d] /= tracked[d]
               /\ data[d].path_override = TMP) =>
              /\ tracked'[d].result_path = file[d]
              /\ files[file[d]] = b[d]
       ]_vars

\* Two temp files from two default Creates of the same file_name exist, and
\* the second Create has recorded its own.
C4_Witness ==
    \E d \in Decls :
        /\ CreateSucceeded(d) /\ data[d].path_override = TMP
        /\ tracked[d] /= NoState
        /\ \E p \in DOMAIN files :
             /\ p /= tracked[d].result_path
             /\ files[p] = files[tracked[d].result_path]

\* C5: the image a successful Create built has the entry unattend.xml if
\* and only if xml_content is non-empty, and then exactly that one entry.
C5_EntryIffContentNonEmpty ==
    \A d \in Decls :
        CreateSucceeded(d) =>
            /\ (data[d].xml_content = <<>>) <=> (Entries(b[d]) = <<>>)
            /\ data[d].xml_content /= <<>> =>
                 /\ Len(Entries(b[d])) = 1
                 /\ Entries(b[d])[1].name = "unattend.xml"

\* C6: for non-empty xml_content the bytes of the unattend.xml entry of the
\* image written to result_path are exactly the bytes of xml_content.
C6_ContentRoundTrip ==
    \A d \in Decls :
        CreateSucceeded(d) /\ data[d].xml_content /= <<>> =>
            /\ Len(Entries(files[file[d]])) >= 1
            /\ Entries(files[file[d]])[1].content = data[d].xml_content

\* C7: a Read or an Update of a state that Create recorded (id and
\* result_path both set) leaves id and result_path as they were.
C7_IdAndResultPathStable ==
    [][\A d \in Decls :
         (/\ (Read(d) \/ \E c \in Configs : Update(d, c))
          /\ Known(tracked[d].id) /\ Known(tracked[d].result_path)) =>
            /\ tracked'[d] /= NoState
            /\ tracked'[d].id = tracked[d].id
            /\ tracked'[d].result_path = tracked[d].result_path
       ]_vars

\* An Update changed the declared file_name under a recorded result_path.
C7_Witness ==
    \E d \in Decls :
        /\ op[d] = "Update" /\ diags[d] = {} /\ tracked[d] /= NoState
        /\ tracked[d].id = ExampleId
        /\ tracked[d].result_path \in DOMAIN files
        /\ tracked[d].file_name = <<"/">>

\* C8: Delete changes no file and opens none; when it returns without error
\* the declaration has no tracked state, and the file at the result_path it
\* had recorded is still there with the same bytes.
C8_DeleteOnlyForgets ==
    [][\A d \in Decls :
         Delete(d) =>
            /\ files' = files
            /\ openFiles' = openFiles
            /\ diags'[d] = {} => tracked'[d] = NoState
            /\ tracked[d].result_path \in DOMAIN files =>
                 /\ tracked[d].result_path \in DOMAIN files'
                 /\ files'[tracked[d].result_path] = files[tracked[d].result_path]
       ]_vars

C8_Witness ==
    \E d \in Decls :
        /\ op[d] = "Delete" /\ diags[d] = {} /\ tracked[d] = NoState
        /\ \E p \in DOMAIN files : Len(files[p]) = 2

\* C9: Update changes no file and opens none, and when it returns without
\* error the tracked state is exactly the plan the host handed in.
C9_UpdateHasNoFileEffect ==
    [][\A d \in Decls : \A c \in Configs :
         Update(d, c) =>
            /\ files' = files
            /\ openFiles' = openFiles
            /\ diags'[d] = {} => tracked'[d] = Plan(c, tracked[d])
       ]_vars

\* After an Update the tracked xml_content is not what the image on disk
\* was built from.
C9_Witness ==
    \E d \in Decls :
        /\ op[d] = "Update" /\ diags[d] = {} /\ tracked[d] /= NoState
        /\ tracked[d].result_path \in DOMAIN files
        /\ LET bytes == files[tracked[d].result_path]
           IN /\ Len(Entries(bytes)) = 1
              /\ Entries(bytes)[1].content /= UnattendContent(tracked[d].xml_content)

\* C10: Read leaves the tracked state equal to the prior state in every
\* field and touches no file, whether or not the file at result_path still
\* exists; it reports nothing about the file (its only diagnostic is a
\* failure to read the prior state).
C10_ReadIsPassthrough ==
    [][\A d \in Decls :
         Read(d) =>
            /\ tracked' = tracked
            /\ files' = files
            /\ openFiles' = openFiles
            /\ diags'[d] \subseteq {"State.Get"}
       ]_vars

\* Read has returned without diagnostics for a tracked resource whose file
\* is gone.
C10_Witness ==
    \E d \in Decls :
        /\ op[d] = "Read" /\ diags[d] = {} /\ tracked[d] /= NoState
        /\ Known(tracked[d].result_path)
        /\ tracked[d].result_path \notin DOMAIN files

\* C11: ImportState of an identifier s yields a tracked state whose id is s
\* and whose file_name, path_override, xml_content and result_path are unset,
\* and creates or writes no file; a Read of such a state leaves every field
\* as it was and touches no file, so the fields stay unset after any number
\* of Reads.
Imported(st, s) ==
    /\ st /= NoState
    /\ st.id = s
    /\ st.file_name = Null /\ st.path_override = Null
    /\ st.xml_content = Null /\ st.result_path = Null

C11_ImportSeedsIdOnly ==
    [][\A d \in Decls : \A s \in ImportIds :
         /\ ImportState(d, s) => Imported(tracked'[d], s) /\ files' = files
                                 /\ openFiles' = openFiles
         /\ (Read(d) /\ Imported(tracked[d], s)) =>
                Imported(tracked'[d], s) /\ files' = files
                /\ openFiles' = openFiles
       ]_vars

\* A Read has returned for an imported state, which is still the seed.
C11_Witness ==
    \E d \in Decls : \E s \in ImportIds :
        op[d] = "Read" /\ diags[d] = {} /\ Imported(tracked[d], s)

\* The image Create builds for a declared xml_content.
BuiltImage(xml) ==
    WriteTo(IF HasXMLContent(xml)
            THEN <<FileEntry("unattend.xml", UnattendContent(xml))>>
            ELSE <<>>, "unattend")

\* No two running Creates hold the same file, no two declarations record
\* the same result_path, and a Create past its write, or returned with its
\* state set, finds at its path the image built from its own xml_content.
C12_OwnFileHoldsOwnImage ==
    /\ \A d1, d2 \in Decls :
         d1 /= d2 =>
           /\ (file[d1] /= NoFile /\ file[d2] /= NoFile) => file[d1] /= file[d2]
           /\ (tracked[d1] /= NoState /\ tracked[d2] /= NoState) =>
                tracked[d1].result_path /= tracked[d2].result_path
    /\ \A d \in Decls :
         /\ (pc[d] \in {"StateSet", "Cleanup", "Done"} /\ file[d] /= NoFile
               /\ Known(data[d].result_path)) =>
              files[file[d]] = BuiltImage(data[d].xml_content)
         /\ tracked[d] /= NoState =>
              /\ tracked[d].result_path \in DOMAIN files
              /\ files[tracked[d].result_path] = BuiltImage(tracked[d].xml_content)

\* C12: with the Creates of two declarations interleaved in any order, a
\* step of one Create creates only the file it opens and changes only the
\* bytes of the file it holds, never creating, truncating or overwriting the
\* other's; and at every point each declaration's path holds the image built
\* from its own xml_content.
C12_CrossDeclarationCreatesAreSafe ==
    [][/\ \A p \in DOMAIN files' \ DOMAIN files :
            \E d \in Decls : pc[d] = "OpenFile" /\ pc'[d] = "Write" /\ file'[d] = p
       /\ \A p \in DOMAIN files :
            /\ p \in DOMAIN files'
            /\ files'[p] /= files[p] =>
                 \E d \in Decls : pc[d] = "Write" /\ pc'[d] /= "Write" /\ file[d] = p
       /\ C12_OwnFileHoldsOwnImage'
      ]_vars

\* Both Creates have run to their return together, with different content.
C12_Witness ==
    /\ \A d \in Decls : CreateSucceeded(d) /\ tracked[d] /= NoState
    /\ tracked["d1"].xml_content /= tracked["d2"].xml_content
    /\ tracked["d1"].file_name = tracked["d2"].file_name

\* C13: whenever no Create is running (each has reached its return), the
\* process holds no open file handle: every Create that opened a destination
\* file closed it, whether its write succeeded or failed.
C13_NoHandleLeftOpen ==
    (\A d \in Decls : pc[d] \in {"idle", "Done"}) => openFiles = 0

\* The positions of Create at which the writer is initialised and the
\* deferred cleanup is pending.
WriterPending == {"AddFile", "WriteTo", "OpenFile", "Write", "StateSet", "Cleanup"}

\* C14: a Create that initialised the ISO writer has invoked its cleanup
\* exactly once when it returns, on success and on every failure exit, and
\* not before; a Create whose initialisation (or plan read) failed never
\* invokes it.
C14_CleanupExactlyOnce ==
    [][\A d \in Decls :
         /\ pc'[d] \in WriterPending =>
              isoWriter'[d].open /\ isoWriter'[d].cleanups = 0
         /\ (pc'[d] = "Done" /\ pc[d] /= "Done") =>
              isoWriter'[d].cleanups = (IF pc[d] \in WriterPending THEN 1 ELSE 0)
         /\ (pc'[d] = "Done" /\ pc[d] \in WriterPending) => pc[d] = "Cleanup"
         /\ pc'[d] = "idle" => pc[d] \in {"idle", "Done"}
       ]_vars

\* A Create whose write failed has returned with the cleanup invoked once.
C14_Witness ==
    \E d \in Decls :
        /\ CreateDone(d) /\ "Error writing to tmp file" \in diags[d]
        /\ isoWriter[d].cleanups = 1 /\ ~isoWriter[d].open

StepOrder == <<"NewWriter", "AddFile", "WriteTo", "OpenFile", "Write",
               "StateSet", "Cleanup", "Done">>
Rank(step) == CHOOSE i \in 1..Len(StepOrder) : StepOrder[i] = step

BuildErrors == {"Unable to start ISO Writer", "Error adding file to ISO",
                "Error writing to ISO"}

\* C16: the steps of a Create run in the order initialise writer, add file,
\* serialise, create destination file, write bytes, set state, each at most
\* once: a step that succeeds is followed by the next one, a step that
\* reports an error is followed only by the deferred cleanup and the return.
\* Files change only in the create-file and write steps of a Create that has
\* reported no error, so a build failure creates or truncates no file, and
\* the state is set only by the set-state step of such a Create.
C16_FailureEndsTheSteps ==
    [][\A d \in Decls :
         /\ (pc[d] \notin {"idle", "Done"} /\ pc'[d] /= pc[d]) =>
              IF diags'[d] /= diags[d]
              THEN pc'[d] \in {"Cleanup", "Done"} /\ Rank(pc'[d]) > Rank(pc[d])
              ELSE Rank(pc'[d]) = Rank(pc[d]) + 1
         /\ (pc'[d] \notin {"idle", "Cleanup", "Done"}) => diags'[d] = {}
         /\ (file'[d] /= file[d] \/ (pc[d] = "Write" /\ pc'[d] /= pc[d])) =>
              \/ pc'[d] = "idle"
              \/ pc[d] \in {"OpenFile", "Write"} /\ diags[d] = {}
                   /\ isoWriter[d].open /\ b[d] /= <<>>
         /\ (pc'[d] = "Done" /\ diags'[d] \cap BuildErrors /= {}) =>
              file'[d] = NoFile
         /\ (tracked'[d] /= tracked[d] /\ op'[d] = "Create") =>
              pc[d] = "StateSet" /\ diags[d] = {}
         /\ files' /= files =>
              \E e \in Decls : pc[e] \in {"OpenFile", "Write"} /\ pc'[e] /= pc[e]
                               /\ diags[e] = {}
       ]_vars

\* A Create whose add-file step failed has returned without serialising,
\* opening a file or setting state.
C16_Witness ==
    \E d \in Decls :
        /\ CreateDone(d) /\ "Error adding file to ISO" \in diags[d]
        /\ b[d] = <<>> /\ file[d] = NoFile /\ tracked[d] = NoState
        /\ files = <<>>

\* C17: the id a Create assigns and records is the same constant whatever
\* the declared file_name, xml_content and path_override, so any two
\* created declarations hold equal ids.
C17_IdIsTheSameConstant ==
    /\ \A d \in Decls :
         /\ data[d] /= NoData => data[d].id = ExampleId
         /\ tracked[d] /= NoState => tracked[d].id = ExampleId
    /\ \A d1, d2 \in Decls :
         (tracked[d1] /= NoState /\ tracked[d2] /= NoState) =>
             tracked[d1].id = tracked[d2].id

\* Two declarations that differ in file_name and xml_content are both
\* created and hold the same id.
C17_Witness ==
    /\ \A d \in Decls : tracked[d] /= NoState /\ pc[d] = "idle"
    /\ tracked["d1"].file_name /= tracked["d2"].file_name
    /\ tracked["d1"].xml_content /= tracked["d2"].xml_content
    /\ tracked["d1"].id = tracked["d2"].id

\* C18: no step of any operation removes a file: every path on disk stays
\* on disk; Read, Update, Delete and ImportState leave the filesystem as it
\* is; a file appears, or its bytes change, only in the create-file and
\* write steps of a running Create.
C18_FilesAreNeverRemoved ==
    [][/\ DOMAIN files \subseteq DOMAIN files'
       /\ \A d \in Decls :
            (\/ Read(d) \/ Delete(d)
             \/ \E c \in Configs : Update(d, c)
             \/ \E s \in ImportIds : ImportState(d, s)) => files' = files
       /\ files' /= files =>
            \E d \in Decls : /\ op[d] = "Create"
                             /\ pc[d] \in {"OpenFile", "Write"}
                             /\ pc'[d] /= pc[d]
                             /\ \A p \in DOMAIN files :
                                  files'[p] /= files[p] => p = file[d]
      ]_vars

\* After Create, Delete, Create with the default path_override two image
\* files are on disk and the tracked state references only the second.
C18_Witness ==
    \E d \in Decls :
        /\ pc[d] = "idle" /\ op[d] = "Create" /\ ncreate = 2
        /\ tracked[d] /= NoState /\ tracked[d].path_override = TMP
        /\ Cardinality(DOMAIN files) = 2
        /\ \A p \in DOMAIN files : Len(files[p]) = 2
        /\ \E p \in DOMAIN files : p /= tracked[d].result_path

====
